---- MODULE Spec2Model ----
(***************************************************************************)
(* State-machine model of the live voice assistant of NexaAi-Studio        *)
(* (src/components/VoiceAssistant.tsx) and of the part of the App          *)
(* component (src/types.ts) that stores the voice transcript.              *)
(*                                                                         *)
(* Every call of startConversation is an "attempt", numbered 1, 2, ...     *)
(* The objects an attempt creates (its microphone stream, its output and   *)
(* input audio context, its script processor and media-stream source node, *)
(* its live session) are identified by the attempt's number; a ref holds   *)
(* the number of the object it points to, or Null.                         *)
(*                                                                         *)
(* Spec is the session lifecycle (button, disposal, getUserMedia, open,    *)
(* error, close) over several attempts; SpecPlay adds the audio messages,  *)
(* the audio clock and the decoding of one session; SpecTurn adds the      *)
(* transcription messages and the stored transcript over two sessions;     *)
(* SpecStart adds to the lifecycle the starts that fail after the          *)
(* microphone was acquired and the resolution of the session promise;      *)
(* SpecCapture adds the buffers of the script processor and their sends;   *)
(* SpecLate follows them over three attempts, when the close event of a    *)
(* stopped session arrives after the next start.                           *)
(* An onmessage handler that awaits decodeAudioData is suspended: the      *)
(* clock may advance and other handlers may run before it resumes.         *)
(***************************************************************************)
EXTENDS Integers, Sequences, FiniteSets, TLC

\* ------------------------------------------------------------- bounds
MaxAttempts == 3    \* calls of startConversation that pass its guard
TurnAttempts == 2   \* the same, in the specification of the transcript
MaxMsgs     == 3    \* server messages delivered to onmessage
MaxClock    == 2    \* largest value of AudioContext.currentTime
MaxDur      == 1    \* largest AudioBuffer.duration of one audio unit
MaxDecoding == 1    \* onmessage handlers suspended at their await
StartAttempts == 2  \* the same, in the specification of the failing starts
ReplayAttempts == 2 \* the same, in the specification of the playback over two sessions
CapAttempts == 2    \* the same, in the specification of the capture
MaxChunks   == 3    \* buffers delivered to onaudioprocess
LateAttempts == 3   \* calls of startConversation, in the specification of the late callbacks
LateChunks  == 1    \* buffers delivered to onaudioprocess there

Null == 0
Attempts == 1..MaxAttempts

Max(a, b) == IF a >= b THEN a ELSE b

\* ------------------------------------------------------------- state
VARIABLES
    \* React state of VoiceAssistant
    connectionState, voiceStatus, error,
    currentInputTranscription, currentOutputTranscription,
    mounted,
    \* refs of VoiceAssistant
    sessionPromiseRef, streamRef, inputAudioContextRef, outputAudioContextRef,
    scriptProcessorRef, mediaStreamSourceRef, nextStartTimeRef, sourcesRef,
    \* props of VoiceAssistant / state of App
    history, store, title,
    \* the objects created by each attempt
    attempts,      \* number of attempts made so far
    phase,         \* attempt -> where its getUserMedia / live session stands
    closeReq,      \* attempt -> stopConversation asked for session.close()
    closure,       \* attempt -> the render values captured by its callbacks
    stream,        \* attempt -> "none" | "live" | "stopped"  (MediaStream tracks)
    outCtx,        \* attempt -> "none" | "running" | "closed" (output AudioContext)
    inCtx,         \* attempt -> "none" | "running" | "closed" (input AudioContext)
    proc,          \* attempt -> "none" | "connected" | "disconnected"
    srcNode,       \* attempt -> "none" | "connected" | "disconnected"
    \* playback
    clock,         \* currentTime of the context outputAudioContextRef points to
    decoding,      \* onmessage handlers suspended at await decodeAudioData
    nUnits,        \* number of AudioBufferSourceNodes started so far
    lastUnit,      \* the AudioBufferSourceNode started last, and how it was started
    stopped,       \* numbers of the units on which stop() was called
    finished,      \* numbers of the units that played to their end
    sched,         \* what the scheduler was given since the last interruption
    nMsgs,         \* messages delivered so far
    \* capture
    resolved,      \* attempt -> its session promise has resolved
    thens,         \* attempt -> the callbacks waiting on its session promise, in the
                   \*            order of their then(): Close, or the number of a chunk
    captured,      \* chunk -> the attempt whose onaudioprocess received it, and
                   \*          whether that session had ended by then
    sends,         \* the calls of session.sendRealtimeInput, in call order
    \* log
    handed,        \* the arrays handed to onHistoryUpdate, in call order
    threw,         \* a handler raised an exception it did not catch
    op,            \* the handler that ran last
    \* the App component, the Chat component and the Search component
    app,           \* state of App: user, activeChatId, activeVoiceChatId, activeTab, chats,
                   \*               voiceChats, chatSession
    db,            \* the Firestore collections of the user and their snapshot listeners
    chat,          \* state of the mounted ChatComponent
    inFlight,      \* the calls of chatSession.sendMessageStream that have not ended
    search,        \* state of the mounted Search component
    localStorage,  \* the item stored under SEARCH_HISTORY_KEY, and how often setItem failed
    dateNow,       \* Date.now()
    uiOp           \* the handler of these components that ran last

compVars == <<connectionState, voiceStatus, error, currentInputTranscription,
              currentOutputTranscription, mounted>>
refVars  == <<sessionPromiseRef, streamRef, inputAudioContextRef, outputAudioContextRef,
              scriptProcessorRef, mediaStreamSourceRef>>
resVars  == <<stream, outCtx, inCtx, proc, srcNode>>
sessVars == <<attempts, phase, closeReq, closure>>
playVars == <<nextStartTimeRef, sourcesRef, clock, decoding, nUnits, lastUnit, stopped,
              finished, sched>>
appVars  == <<history, store, title, handed>>
capVars  == <<resolved, thens, captured, sends>>
uiVars   == <<app, db, chat, inFlight, search, localStorage, dateNow, uiOp>>
vars == <<compVars, refVars, resVars, sessVars, playVars, appVars, capVars, nMsgs, threw, op,
          uiVars>>

\* db.listener when nothing is subscribed
NoListener == -1
\* part_001 lines 165-172: the state of a ChatComponent that has just been mounted; inst
\* numbers the mounts
NewChatComponent(inst) ==
    [inst |-> inst, input |-> <<>>, loading |-> FALSE, error |-> "null",
     imageFile |-> Null, imagePreview |-> Null, reading |-> FALSE]
\* part_002 lines 14-22: the state of a Search component that has just been mounted
\* (pending: the request of this component is in flight)
NewSearch ==
    [query |-> <<>>, loading |-> FALSE, history |-> <<>>, pending |-> FALSE]

NoMsg == [audio |-> 0, inT |-> <<"-">>, outT |-> <<"-">>,
          turnComplete |-> FALSE, interrupted |-> FALSE]
\* op: h is the handler that ran last, s its attempt, m its message; stops counts the
\* calls of stopConversation made in a row (up to 2); from is the connection state the
\* last stopConversation was called in, "none" once startConversation has run since.
StopOps == {"stop", "unmount", "onerror", "onclose"}
Op(h, s, m) ==
    [h |-> h, s |-> s, m |-> m,
     stops |-> IF h \in StopOps THEN (IF op.stops = 0 THEN 1 ELSE 2) ELSE 0,
     from |-> IF h \in StopOps THEN connectionState
              ELSE IF h = "start" THEN "none" ELSE op.from]

\* sched: prevEnd is start + duration of the unit started last, sumDur the sum of the
\* durations of the units started, recvMax the largest clock value an audio message
\* was received at since the last start; afterIntr holds from an interruption to the
\* next audio message. All are reset by an interruption; intr holds once there was one.
NoSched == [prevEnd |-> 0, sumDur |-> 0, recvMax |-> 0, afterIntr |-> FALSE, intr |-> FALSE]
\* lastUnit: n is the unit's number (0: none yet), s the attempt whose onmessage started
\* it, maxS the latest attempt that has started a unit, fresh whether s is later than
\* every attempt that had started one before, late whether some unit was started after
\* stopConversation had asked for its session to close; start is the time given to start(),
\* dur its duration, at the clock when start() was called, recv the clock when its
\* message was received, first whether that message was the first audio message after
\* an interruption; prevEnd, sumDur, recvMax are those of sched when it was started.
NoUnit == [n |-> 0, s |-> 0, fresh |-> FALSE, maxS |-> 0, late |-> FALSE,
           start |-> 0, dur |-> 0, at |-> 0, recv |-> 0, first |-> FALSE,
           prevEnd |-> 0, sumDur |-> 0, recvMax |-> 0, intr |-> FALSE]

Init ==
    /\ connectionState = "idle"
    /\ voiceStatus = "Idle"
    /\ error = "null"
    /\ currentInputTranscription = <<>>
    /\ currentOutputTranscription = <<>>
    /\ mounted = TRUE
    /\ sessionPromiseRef = Null
    /\ streamRef = Null
    /\ inputAudioContextRef = Null
    /\ outputAudioContextRef = Null
    /\ scriptProcessorRef = Null
    /\ mediaStreamSourceRef = Null
    /\ nextStartTimeRef = 0
    /\ sourcesRef = {}
    /\ history = <<>>
    /\ store = <<>>
    /\ title = <<>>
    /\ attempts = 0
    /\ phase = [i \in Attempts |-> "none"]
    /\ closeReq = [i \in Attempts |-> FALSE]
    /\ closure = [i \in Attempts |-> [inT |-> <<>>, outT |-> <<>>, hist |-> <<>>]]
    /\ stream = [i \in Attempts |-> "none"]
    /\ outCtx = [i \in Attempts |-> "none"]
    /\ inCtx = [i \in Attempts |-> "none"]
    /\ proc = [i \in Attempts |-> "none"]
    /\ srcNode = [i \in Attempts |-> "none"]
    /\ clock = 0
    /\ decoding = <<>>
    /\ nUnits = 0
    /\ lastUnit = NoUnit
    /\ finished = {}
    /\ stopped = {}
    /\ sched = NoSched
    /\ nMsgs = 0
    /\ resolved = [i \in Attempts |-> FALSE]
    /\ thens = [i \in Attempts |-> <<>>]
    /\ captured = <<>>
    /\ sends = <<>>
    /\ handed = <<>>
    /\ threw = FALSE
    /\ op = [h |-> "init", s |-> Null, m |-> NoMsg, stops |-> 0, from |-> "none"]
    /\ app = [user |-> Null, activeChatId |-> Null, activeVoiceChatId |-> Null,
              activeTab |-> "chat", chats |-> <<>>, voiceChats |-> <<>>,
              chatSession |-> Null]
    /\ db = [chats |-> <<>>, voiceChats |-> <<>>, listener |-> NoListener, due |-> FALSE,
             voiceDue |-> FALSE, adding |-> <<>>]
    /\ chat = NewChatComponent(1)
    /\ inFlight = {}
    /\ search = NewSearch
    /\ localStorage = [has |-> FALSE, items |-> <<>>, failures |-> 0]
    /\ dateNow = 0
    /\ uiOp = [h |-> "init"]

\* A state setter of a component that was unmounted changes nothing.
SetState(cur, new) == IF mounted THEN new ELSE cur

\* ------------------------------------------------------------- stopConversation
\* f with the entry the ref r points to (if any) replaced by v
Release(f, r, v) == IF r # Null THEN [f EXCEPT ![r] = v] ELSE f
\* a condition that never asks whether the context is closed already
CallsCloseAlways(f, r) == r # Null
\* lines 62 and 65: close() is called on a context that exists and is not closed
CallsClose(f, r) == r # Null /\ f[r] # "closed"
\* close() on a closed AudioContext fails with an InvalidStateError
CloseFails(f, r) == CallsClose(f, r) /\ f[r] = "closed"
CloseCtx(f, r) == IF CallsClose(f, r) THEN [f EXCEPT ![r] = "closed"] ELSE f

\* a then() that puts the callback before the ones that wait already
ThenFirst(q, cb) == <<cb>> \o q
\* lines 41 and 104: then() on a promise that has not resolved puts the callback
\* behind the ones that wait already
Then(q, cb) == Append(q, cb)
\* the callback of lines 41-43, which calls session.close()
Close == 0

\* The refs and objects after stopConversation (lines 39-71), given the ones before. On a
\* session promise that has resolved the callback of line 41 runs before any other task.
stopConversation ==
    /\ closeReq' = IF sessionPromiseRef # Null
                     THEN [closeReq EXCEPT ![sessionPromiseRef] = TRUE] ELSE closeReq
    /\ thens' = IF sessionPromiseRef # Null /\ ~resolved[sessionPromiseRef]
                  THEN [thens EXCEPT ![sessionPromiseRef] = Then(@, Close)] ELSE thens
    /\ sessionPromiseRef' = Null
    /\ stream' = Release(stream, streamRef, "stopped")
    /\ streamRef' = Null
    /\ proc' = Release(proc, scriptProcessorRef, "disconnected")
    /\ scriptProcessorRef' = Null
    /\ srcNode' = Release(srcNode, mediaStreamSourceRef, "disconnected")
    /\ mediaStreamSourceRef' = Null
    /\ inCtx' = CloseCtx(inCtx, inputAudioContextRef)
    /\ outCtx' = CloseCtx(outCtx, outputAudioContextRef)
    /\ UNCHANGED <<inputAudioContextRef, outputAudioContextRef>>
    /\ connectionState' = SetState(connectionState, "idle")
    /\ voiceStatus' = SetState(voiceStatus, "Idle")
    /\ threw' = (threw \/ CloseFails(inCtx, inputAudioContextRef)
                       \/ CloseFails(outCtx, outputAudioContextRef))

\* ------------------------------------------------------------- startConversation
\* a guard that lets a start through while connecting
MayStartUnlessConnected(cs) == cs # "connected"
\* line 74: the guard of startConversation
MayStart(cs) == cs \in {"idle", "error", "closed"}

\* lines 73-83: the guard, the state resets, and the call of getUserMedia
startConversation(maxAttempts) ==
    IF ~MayStart(connectionState)
    THEN /\ op' = Op("startReturn", Null, NoMsg)
         /\ UNCHANGED <<compVars, refVars, resVars, sessVars, playVars, appVars, capVars,
                        nMsgs, threw>>
    ELSE /\ attempts < maxAttempts
         /\ attempts' = attempts + 1
         /\ connectionState' = "connecting"
         /\ voiceStatus' = "Connecting..."
         /\ error' = "null"
         /\ currentInputTranscription' = <<>>
         /\ currentOutputTranscription' = <<>>
         /\ phase' = [phase EXCEPT ![attempts + 1] = "awaitMic"]
         /\ closure' = [closure EXCEPT ![attempts + 1] =
                           [inT |-> currentInputTranscription,
                            outT |-> currentOutputTranscription,
                            hist |-> history]]
         /\ op' = Op("start", attempts + 1, NoMsg)
         /\ UNCHANGED <<mounted, refVars, resVars, closeReq, playVars, appVars, capVars,
                        nMsgs, threw>>

\* A WebSocket that fails fires its error event and its close event in one task: no
\* user event is handled between the onerror and the onclose of a session.
NoCloseDue == \A i \in Attempts : phase[i] # "errored"

\* line 235: the button calls stopConversation when connected, else startConversation
ClickButton(maxAttempts) ==
    /\ UNCHANGED uiVars
    /\ mounted
    /\ NoCloseDue
    /\ IF connectionState = "connected"
       THEN /\ stopConversation
            /\ op' = Op("stop", Null, NoMsg)
            /\ UNCHANGED <<error, currentInputTranscription, currentOutputTranscription,
                           mounted, attempts, phase, closure, playVars, appVars,
                           resolved, captured, sends, nMsgs>>
       ELSE startConversation(maxAttempts)

\* lines 200-204: the effect's cleanup, run when the component is disposed
Unmount ==
    /\ UNCHANGED uiVars
    /\ mounted
    /\ NoCloseDue
    /\ mounted' = FALSE
    /\ stopConversation
    /\ op' = Op("unmount", Null, NoMsg)
    /\ UNCHANGED <<error, currentInputTranscription, currentOutputTranscription,
                   attempts, phase, closure, playVars, appVars, resolved, captured, sends,
                   nMsgs>>

\* lines 83-90, 182: getUserMedia resolved; the stream, the output context and the
\* session promise are created and stored in the refs
MicGranted(i) ==
    /\ UNCHANGED uiVars
    /\ phase[i] = "awaitMic"
    /\ phase' = [phase EXCEPT ![i] = "connecting"]
    /\ stream' = [stream EXCEPT ![i] = "live"]
    /\ streamRef' = i
    /\ outCtx' = [outCtx EXCEPT ![i] = "running"]
    /\ outputAudioContextRef' = i
    /\ clock' = 0
    /\ sessionPromiseRef' = i
    /\ op' = Op("micGranted", i, NoMsg)
    /\ UNCHANGED <<compVars, inputAudioContextRef, scriptProcessorRef, mediaStreamSourceRef,
                   inCtx, proc, srcNode, attempts, closeReq, closure,
                   nextStartTimeRef, sourcesRef, decoding, nUnits, lastUnit, stopped,
                   finished, sched, appVars, capVars, nMsgs, threw>>

\* ---- what a failed start throws
\* the text setError is given for a denied microphone (line 189)
MicrophoneMessage == "Microphone access was denied."
\* the text for a value that is not an Error (line 186)
UnexpectedMessage == "An unexpected error occurred."
\* the text of onerror (line 162)
ConnectionMessage == "A connection error occurred."
\* the messages for which message.includes('Permission denied') holds
PermissionTexts == {"Permission denied", "Permission denied by system"}
Thrown(isError, name, message) == [isError |-> isError, name |-> name, message |-> message]
\* what getUserMedia rejects with: the user or the system denied the microphone
\* (NotAllowedError, formerly PermissionDeniedError), or there is no microphone
MicErrors == {Thrown(TRUE, "NotAllowedError", "Permission denied"),
              Thrown(TRUE, "NotAllowedError", "Permission dismissed"),
              Thrown(TRUE, "PermissionDeniedError", ""),
              Thrown(TRUE, "NotFoundError", "Requested device not found")}
\* the rejections that mean the access to the microphone was denied
Denied(err) == err.name \in {"NotAllowedError", "PermissionDeniedError"}
\* what the constructors of lines 86 and 88 throw
StartErrors == {Thrown(TRUE, "Error", "An API Key must be set when running in a browser"),
                Thrown(TRUE, "NotSupportedError", "The sample rate is not supported")}

\* a catch block that tells no failure from another
AnyErrorMessage(err) == IF err.isError THEN err.message ELSE UnexpectedMessage
\* lines 186-193: the message the catch block chooses
ErrorMessage(err) ==
    IF err.isError
    THEN IF \/ err.name = "NotAllowedError"
            \/ err.name = "PermissionDeniedError"
            \/ err.message \in PermissionTexts
         THEN MicrophoneMessage
         ELSE err.message
    ELSE UnexpectedMessage

\* lines 83, 184-197: getUserMedia rejected with err
MicDenied(i, err) ==
    /\ UNCHANGED uiVars
    /\ phase[i] = "awaitMic"
    /\ phase' = [phase EXCEPT ![i] = IF Denied(err) THEN "denied" ELSE "failed"]
    /\ error' = SetState(error, ErrorMessage(err))
    /\ connectionState' = SetState(connectionState, "error")
    /\ voiceStatus' = SetState(voiceStatus, "Idle")
    /\ op' = Op("micDenied", i, NoMsg)
    /\ UNCHANGED <<currentInputTranscription, currentOutputTranscription, mounted,
                   refVars, resVars, attempts, closeReq, closure, playVars, appVars,
                   capVars, nMsgs, threw>>

\* lines 83-88, 184-197: getUserMedia resolved and the stream was stored, then the
\* constructor of line 86 or of line 88 threw err: the catch block releases nothing
StartFails(i, err) ==
    /\ UNCHANGED uiVars
    /\ phase[i] = "awaitMic"
    /\ phase' = [phase EXCEPT ![i] = "failed"]
    /\ stream' = [stream EXCEPT ![i] = "live"]
    /\ streamRef' = i
    /\ error' = SetState(error, ErrorMessage(err))
    /\ connectionState' = SetState(connectionState, "error")
    /\ voiceStatus' = SetState(voiceStatus, "Idle")
    /\ op' = Op("startFails", i, NoMsg)
    /\ UNCHANGED <<currentInputTranscription, currentOutputTranscription, mounted,
                   sessionPromiseRef, inputAudioContextRef, outputAudioContextRef,
                   scriptProcessorRef, mediaStreamSourceRef, outCtx, inCtx, proc, srcNode,
                   attempts, closeReq, closure, playVars, appVars, capVars, nMsgs, threw>>

\* lines 93-111: onopen. createMediaStreamSource(null) throws a TypeError, after the
\* input context was created and stored.
OnOpen(i) ==
    /\ UNCHANGED uiVars
    /\ phase[i] = "connecting"
    /\ phase' = [phase EXCEPT ![i] = "open"]
    /\ connectionState' = SetState(connectionState, "connected")
    /\ inCtx' = [inCtx EXCEPT ![i] = "running"]
    /\ inputAudioContextRef' = i
    /\ IF streamRef # Null
       THEN /\ srcNode' = [srcNode EXCEPT ![i] = "connected"]
            /\ mediaStreamSourceRef' = i
            /\ proc' = [proc EXCEPT ![i] = "connected"]
            /\ scriptProcessorRef' = i
            /\ UNCHANGED threw
       ELSE /\ threw' = TRUE
            /\ UNCHANGED <<srcNode, mediaStreamSourceRef, proc, scriptProcessorRef>>
    /\ op' = Op("onopen", i, NoMsg)
    /\ UNCHANGED <<voiceStatus, error, currentInputTranscription, currentOutputTranscription,
                   mounted, sessionPromiseRef, streamRef, outputAudioContextRef,
                   stream, outCtx, attempts, closeReq, closure, playVars, appVars,
                   capVars, nMsgs>>

\* lines 160-166: onerror
OnError(i) ==
    /\ UNCHANGED uiVars
    /\ phase[i] \in {"connecting", "open"}
    /\ phase' = [phase EXCEPT ![i] = "errored"]
    /\ error' = SetState(error, ConnectionMessage)
    /\ stopConversation
    /\ op' = Op("onerror", i, NoMsg)
    /\ UNCHANGED <<currentInputTranscription, currentOutputTranscription, mounted,
                   attempts, closure, playVars, appVars, resolved, captured, sends, nMsgs>>

\* lines 167-171: onclose
OnClose(i) ==
    /\ UNCHANGED uiVars
    /\ phase[i] \in {"connecting", "open", "errored"}
    /\ phase' = [phase EXCEPT ![i] = "closed"]
    /\ stopConversation
    /\ op' = Op("onclose", i, NoMsg)
    /\ UNCHANGED <<error, currentInputTranscription, currentOutputTranscription, mounted,
                   attempts, closure, playVars, appVars, resolved, captured, sends, nMsgs>>

\* ------------------------------------------------------------- onmessage
\* The texts are sequences of characters; Blank is the character trim() removes.
Blank == " "
RECURSIVE TrimStart(_)
TrimStart(s) == IF s # <<>> /\ Head(s) = Blank THEN TrimStart(Tail(s)) ELSE s
RECURSIVE TrimEnd(_)
TrimEnd(s) == IF s # <<>> /\ s[Len(s)] = Blank THEN TrimEnd(SubSeq(s, 1, Len(s) - 1)) ELSE s
\* String.prototype.trim
Trim(s) == TrimEnd(TrimStart(s))
\* String.prototype.substring(0, n)
Substring0(s, n) == SubSeq(s, 1, IF Len(s) < n THEN Len(s) ELSE n)

\* A field of serverContent that is absent
Absent == <<"-">>
Text(t) == IF t = Absent THEN <<>> ELSE t

\* types.ts lines 468-480 (handleUpdateVoiceChat): the title written with the transcripts
TitleLen == 40
NewTitle(newTranscripts) ==
    IF Len(newTranscripts) = 1 /\ newTranscripts[1].user # <<>>
    THEN Substring0(newTranscripts[1].user, TitleLen) ELSE title

\* an updater that forgets what was accumulated
LastFragment(prev, temp) == temp
\* lines 134 and 139: the updater prev => prev + temp
Accumulate(prev, temp) == prev \o temp
\* a turn text that leaves out the fragment of the message
WithoutFragment(current, temp) == current
\* lines 144-145: current...Transcription + temp...
FullText(current, temp) == current \o temp

\* lines 128-158: what onmessage does after the audio part. ns and srcs are the values of
\* nextStartTimeRef and sourcesRef the audio part left, vs the status it left.
FinishMessage(i, m, ns, srcs, vs, sc) ==
    LET tempInput  == Text(m.inT)
        tempOutput == Text(m.outT)
        fullInput  == FullText(closure[i].inT, tempInput)
        fullOutput == FullText(closure[i].outT, tempOutput)
        newHistory == Append(closure[i].hist, [user |-> fullInput, model |-> fullOutput])
        update     == m.turnComplete /\ (Trim(fullInput) # <<>> \/ Trim(fullOutput) # <<>>)
        status     == IF m.turnComplete THEN "Listening"
                      ELSE IF m.outT # Absent THEN "Speaking"
                      ELSE IF m.inT # Absent THEN "Listening" ELSE vs
    IN  /\ voiceStatus' = SetState(voiceStatus, status)
        /\ currentInputTranscription' =
              SetState(currentInputTranscription,
                       IF m.turnComplete THEN <<>>
                       ELSE Accumulate(currentInputTranscription, tempInput))
        /\ currentOutputTranscription' =
              SetState(currentOutputTranscription,
                       IF m.turnComplete THEN <<>>
                       ELSE Accumulate(currentOutputTranscription, tempOutput))
        /\ handed' = IF update THEN Append(handed, [s |-> i, arr |-> newHistory]) ELSE handed
        /\ store' = IF update THEN newHistory ELSE store
        /\ title' = IF update THEN NewTitle(newHistory) ELSE title
        /\ stopped' = IF m.interrupted THEN stopped \cup {u.n : u \in srcs} ELSE stopped
        /\ sched' = IF m.interrupted THEN [NoSched EXCEPT !.afterIntr = TRUE, !.intr = TRUE] ELSE sc
        /\ sourcesRef' = IF m.interrupted THEN {} ELSE srcs
        /\ nextStartTimeRef' = IF m.interrupted THEN 0 ELSE ns

\* a cursor left where it was
NoClamp(cursor, now) == cursor
\* line 116: Math.max(nextStartTimeRef.current, currentTime)
Clamp(cursor, now) == Max(cursor, now)

\* lines 112-117: a message arrives; with audio the handler clamps the cursor and is
\* suspended at await decodeAudioData, without audio it runs to its end
OnMessage(i, m) ==
    /\ UNCHANGED uiVars
    /\ phase[i] = "open"
    /\ nMsgs < MaxMsgs
    /\ nMsgs' = nMsgs + 1
    /\ IF m.audio > 0 /\ outputAudioContextRef # Null
       THEN /\ Len(decoding) < MaxDecoding
            /\ voiceStatus' = SetState(voiceStatus, "Speaking")
            /\ nextStartTimeRef' = Clamp(nextStartTimeRef, clock)
            /\ sched' = [sched EXCEPT !.recvMax = Max(sched.recvMax, clock),
                                       !.afterIntr = FALSE]
            /\ decoding' = Append(decoding, [s |-> i, m |-> m, recv |-> clock,
                                              first |-> sched.afterIntr])
            /\ op' = Op("onmessageAwait", i, m)
            /\ UNCHANGED <<currentInputTranscription, currentOutputTranscription,
                           sourcesRef, stopped, appVars>>
       ELSE /\ FinishMessage(i, m, nextStartTimeRef, sourcesRef, voiceStatus, sched)
            /\ op' = Op("onmessage", i, m)
            /\ UNCHANGED <<decoding, history>>
    /\ UNCHANGED <<connectionState, error, mounted, refVars, resVars, sessVars,
                   clock, nUnits, lastUnit, finished, capVars, threw>>

\* lines 117-158: decodeAudioData resolved; the k-th suspended handler starts its unit
\* at the cursor, advances the cursor and runs to its end
DecodeDone(k) ==
    /\ UNCHANGED uiVars
    /\ k \in 1..Len(decoding)
    /\ LET d == decoding[k]
           dur == d.m.audio
           source == [n |-> nUnits + 1, ctx |-> outputAudioContextRef,
                      ends |-> Max(nextStartTimeRef, clock) + dur]
       IN  /\ nUnits' = nUnits + 1
           /\ lastUnit' = [n |-> nUnits + 1, s |-> d.s, fresh |-> d.s > lastUnit.maxS,
                           maxS |-> Max(lastUnit.maxS, d.s),
                           late |-> lastUnit.late \/ closeReq[d.s],
                           start |-> nextStartTimeRef, dur |-> dur,
                           at |-> clock, recv |-> d.recv, first |-> d.first,
                           prevEnd |-> sched.prevEnd, sumDur |-> sched.sumDur,
                           recvMax |-> sched.recvMax, intr |-> sched.intr]
           /\ decoding' = SubSeq(decoding, 1, k - 1) \o SubSeq(decoding, k + 1, Len(decoding))
           /\ FinishMessage(d.s, d.m, nextStartTimeRef + dur, sourcesRef \cup {source},
                            voiceStatus,
                            [sched EXCEPT !.prevEnd = nextStartTimeRef + dur,
                                          !.sumDur = sched.sumDur + dur,
                                          !.recvMax = 0])
           /\ op' = Op("onmessageResume", d.s, d.m)
    /\ UNCHANGED <<connectionState, error, mounted, refVars, resVars, sessVars,
                   clock, finished, history, capVars, nMsgs, threw>>

\* a listener that leaves the set as it is
KeepSource(set, u) == set
\* line 122: sourcesRef.current.delete(source)
Delete(set, u) == set \ {u}

\* the 'ended' listener of line 122: a source that played to its end leaves the set
SourceEnded(u) ==
    /\ UNCHANGED uiVars
    /\ u \in sourcesRef
    /\ u.ctx = outputAudioContextRef
    /\ outCtx[u.ctx] = "running"
    /\ clock >= u.ends
    /\ sourcesRef' = Delete(sourcesRef, u)
    /\ finished' = finished \cup {u.n}
    /\ op' = Op("ended", Null, NoMsg)
    /\ UNCHANGED <<compVars, refVars, resVars, sessVars, nextStartTimeRef, clock, decoding,
                   nUnits, lastUnit, stopped, sched, appVars, capVars, nMsgs, threw>>

\* the audio clock of the output context advances
Tick ==
    /\ UNCHANGED uiVars
    /\ outputAudioContextRef # Null
    /\ outCtx[outputAudioContextRef] = "running"
    /\ clock < MaxClock
    /\ clock' = clock + 1
    /\ op' = Op("tick", Null, NoMsg)
    /\ UNCHANGED <<compVars, refVars, resVars, sessVars, nextStartTimeRef, sourcesRef,
                   decoding, nUnits, lastUnit, stopped, finished, sched, appVars, capVars,
                   nMsgs, threw>>

\* types.ts lines 386-399: the document listener delivers the stored transcripts
VoiceDocSnapshot ==
    /\ UNCHANGED uiVars
    /\ history # store
    /\ history' = store
    /\ op' = Op("snapshot", Null, NoMsg)
    /\ UNCHANGED <<compVars, refVars, resVars, sessVars, playVars, store, title, handed,
                   capVars, nMsgs, threw>>

\* ------------------------------------------------------------- capture
\* onopen has run for attempt i: ai.live.connect resolves its promise only after it
\* has called onopen
Opened(i) == inCtx[i] # "none"
\* The session of attempt i has ended: an error or close event was delivered for it, or
\* session.close() was called on it.
Ended(i) == phase[i] \in {"errored", "closed"} \/ (closeReq[i] /\ resolved[i])
\* one call of sendRealtimeInput: chunk c handed to the session of attempt i; open tells
\* whether the session's socket was open, a socket that is not open drops what it is sent
Send(i, c, open) == [s |-> i, c |-> c, open |-> open]
\* a send that waits while the session is closed
KeepUnlessOpen(q, c, open) == IF open THEN q ELSE Append(q, c)
\* lines 104-106: what waits on the promise after the callback has sent chunk c
AfterSend(q, c, open) == q

\* the callbacks q waiting on the promise of attempt i run in the order of their
\* then(); closed tells whether session.close() has run, log is the calls made so far
RECURSIVE RunThens(_, _, _, _)
RunThens(q, i, closed, log) ==
    IF q = <<>> THEN log
    ELSE IF Head(q) = Close THEN RunThens(Tail(q), i, TRUE, log)
    ELSE RunThens(Tail(q), i, closed,
                  Append(log, Send(i, Head(q), phase[i] = "open" /\ ~closed)))
\* the callbacks of q that are still waiting once all of q have run
RECURSIVE LeftThens(_, _, _)
LeftThens(q, i, closed) ==
    IF q = <<>> THEN <<>>
    ELSE IF Head(q) = Close THEN LeftThens(Tail(q), i, TRUE)
    ELSE AfterSend(LeftThens(Tail(q), i, closed), Head(q), phase[i] = "open" /\ ~closed)

\* line 90: the promise ai.live.connect returned resolves with the session, and the
\* callbacks registered with then() in lines 41 and 104 run
SessionResolved(i) ==
    /\ UNCHANGED uiVars
    /\ Opened(i)
    /\ ~resolved[i]
    /\ resolved' = [resolved EXCEPT ![i] = TRUE]
    /\ sends' = RunThens(thens[i], i, FALSE, sends)
    /\ thens' = [thens EXCEPT ![i] = LeftThens(thens[i], i, FALSE)]
    /\ op' = Op("resolved", i, NoMsg)
    /\ UNCHANGED <<compVars, refVars, resVars, sessVars, playVars, appVars, captured,
                   nMsgs, threw>>

\* lines 101-107: onaudioprocess of the script processor of attempt i receives a buffer,
\* encodes it and hands it to the session through the session promise; on a resolved
\* promise the callback of line 104 runs before any other task
Capture(i, maxChunks) ==
    /\ UNCHANGED uiVars
    /\ proc[i] = "connected"
    /\ inCtx[i] = "running"
    /\ Len(captured) < maxChunks
    /\ LET c == Len(captured) + 1
           open == phase[i] = "open" /\ ~closeReq[i]
       IN  /\ captured' = Append(captured, [s |-> i, late |-> Ended(i)])
           /\ IF resolved[i]
              THEN /\ sends' = Append(sends, Send(i, c, open))
                   /\ thens' = [thens EXCEPT ![i] = AfterSend(@, c, open)]
              ELSE /\ thens' = [thens EXCEPT ![i] = Then(@, c)]
                   /\ UNCHANGED sends
    /\ op' = Op("capture", i, NoMsg)
    /\ UNCHANGED <<compVars, refVars, resVars, sessVars, playVars, appVars, resolved,
                   nMsgs, threw>>

\* ------------------------------------------------------------- inputs
\* audio is the duration of the buffer decodeAudioData makes of the payload (0: the
\* message has no inlineData); inT and outT are the transcription texts, or Absent
Frags == {<<"a">>, <<Blank>>}
Msg(a, it, ot, tc, ir) ==
    [audio |-> a, inT |-> it, outT |-> ot, turnComplete |-> tc, interrupted |-> ir]
\* messages of the playback scheduler: audio and the interruption marker
AudioMsgs == {Msg(a, Absent, Absent, FALSE, ir) : a \in 0..MaxDur, ir \in BOOLEAN}
                \ {Msg(0, Absent, Absent, FALSE, FALSE)}
\* messages of the transcript: fragments and the turn-complete marker
TextMsgs == {Msg(0, it, ot, tc, FALSE) :
                it \in Frags \cup {Absent}, ot \in {<<"b">>, Absent}, tc \in BOOLEAN}
                \ {Msg(0, Absent, Absent, FALSE, FALSE)}

Lifecycle(maxAttempts) ==
    \/ ClickButton(maxAttempts)
    \/ Unmount
    \/ \E i \in Attempts : MicGranted(i)
    \/ \E i \in Attempts, err \in MicErrors : MicDenied(i, err)
    \/ \E i \in Attempts : OnOpen(i)
    \/ \E i \in Attempts : OnError(i)
    \/ \E i \in Attempts : OnClose(i)

Next ==
    \/ Lifecycle(MaxAttempts)

Spec == Init /\ [][Next]_vars

\* the playback scheduler, over the one session of a single attempt
NextPlay ==
    \/ ClickButton(1)
    \/ \E i \in Attempts : MicGranted(i)
    \/ \E i \in Attempts : OnOpen(i)
    \/ \E i \in Attempts, m \in AudioMsgs : OnMessage(i, m)
    \/ \E k \in 1..MaxDecoding : DecodeDone(k)
    \/ \E u \in sourcesRef : SourceEnded(u)
    \/ Tick

SpecPlay == Init /\ [][NextPlay]_vars

NextTurn ==
    \/ ClickButton(TurnAttempts)
    \/ \E i \in Attempts : MicGranted(i)
    \/ \E i \in Attempts : OnOpen(i)
    \/ \E i \in Attempts, m \in TextMsgs : OnMessage(i, m)
    \/ VoiceDocSnapshot

SpecTurn == Init /\ [][NextTurn]_vars

\* the playback scheduler over two sessions, one after the other: a session that
\* stopConversation has asked to close delivers no further message
NextReplay ==
    \/ ClickButton(ReplayAttempts)
    \/ \E i \in Attempts : MicGranted(i)
    \/ \E i \in Attempts : OnOpen(i)
    \/ \E i \in Attempts, m \in AudioMsgs : ~closeReq[i] /\ OnMessage(i, m)
    \/ \E k \in 1..MaxDecoding : DecodeDone(k)
    \/ \E u \in sourcesRef : SourceEnded(u)
    \/ Tick

SpecReplay == Init /\ [][NextReplay]_vars

\* the transcription messages of the one session of a single attempt
NextText ==
    \/ ClickButton(1)
    \/ \E i \in Attempts : MicGranted(i)
    \/ \E i \in Attempts : OnOpen(i)
    \/ \E i \in Attempts, m \in TextMsgs : OnMessage(i, m)

SpecText == Init /\ [][NextText]_vars

\* the lifecycle with the starts that fail after the microphone was acquired and with
\* the resolution of the session promise, over two attempts
NextStart ==
    \/ Lifecycle(StartAttempts)
    \/ \E i \in Attempts, err \in StartErrors : StartFails(i, err)
    \/ \E i \in Attempts : SessionResolved(i)

SpecStart == Init /\ [][NextStart]_vars

\* the capture pipeline, over two attempts
NextCapture ==
    \/ ClickButton(CapAttempts)
    \/ \E i \in Attempts : MicGranted(i)
    \/ \E i \in Attempts : OnOpen(i)
    \/ \E i \in Attempts : SessionResolved(i)
    \/ \E i \in Attempts : Capture(i, MaxChunks)
    \/ \E i \in Attempts : OnError(i)
    \/ \E i \in Attempts : OnClose(i)

SpecCapture == Init /\ [][NextCapture]_vars

\* the close events of the specification of the late callbacks: the one that follows
\* the session.close() of lines 41-43, and the remote end closing the session that was
\* started last, once it is open
CloseDue(i) == (closeReq[i] /\ resolved[i]) \/ (i = attempts /\ Opened(i))

\* the capture pipeline when the callbacks of a session that was stopped arrive late,
\* over three attempts
NextLate ==
    \/ ClickButton(LateAttempts)
    \/ \E i \in Attempts : MicGranted(i)
    \/ \E i \in Attempts : OnOpen(i)
    \/ \E i \in Attempts : SessionResolved(i)
    \/ \E i \in Attempts : Capture(i, LateChunks)
    \/ \E i \in Attempts : CloseDue(i) /\ OnClose(i)

SpecLate == Init /\ [][NextLate]_vars

\* ============================================================= claims
\* everything but the log of the last handler
progVars == <<compVars, refVars, resVars, sessVars, playVars, appVars, capVars, nMsgs, threw>>

\* a session created by startConversation (ai.live.connect was called) on which
\* neither close() was asked for nor a close or error event was delivered
Active(i) == phase[i] \in {"connecting", "open"} /\ ~closeReq[i]

\* C1: at most one session is created and not yet closed at any moment.
AtMostOneActiveSession == Cardinality({i \in Attempts : Active(i)}) <= 1

\* what the component holds through its refs
HoldsNothing ==
    /\ streamRef = Null
    /\ scriptProcessorRef = Null
    /\ mediaStreamSourceRef = Null
    /\ inputAudioContextRef # Null => inCtx[inputAudioContextRef] = "closed"
    /\ outputAudioContextRef # Null => outCtx[outputAudioContextRef] = "closed"

\* C2: after stopConversation was called in connecting, connected or error, and until
\* startConversation runs again, the connection state is idle and the component holds no
\* stream, no node and no open audio context, whatever callbacks of the stopped start
\* arrive later.
StopEndsIdleAndReleased ==
    op.from \in {"connecting", "connected", "error"} =>
        connectionState = "idle" /\ HoldsNothing

\* C3: a call of startConversation while connecting or connected changes nothing: no
\* state, no ref, no object, no new attempt.
StartIsNoOpWhenActive ==
    [][(op'.h \in {"start", "startReturn"} /\ connectionState \in {"connecting", "connected"})
          => UNCHANGED progVars]_vars
\* startConversation was called while connecting
StartCalledWhileConnecting ==
    op.h = "startReturn" /\ connectionState = "connecting" /\ attempts > 0

\* C4: a call of stopConversation right after another one raises no error and leaves
\* the connection state, the status, every ref and every object as they were.
StopIsIdempotent ==
    [][op'.stops = 2 =>
          UNCHANGED <<connectionState, voiceStatus, refVars, nextStartTimeRef, sourcesRef,
                      resVars, closeReq, threw>>]_vars
\* stopConversation ran twice in a row after a session had acquired all its resources
StoppedTwiceInARow ==
    /\ op.stops = 2
    /\ ~threw
    /\ \E i \in Attempts : stream[i] = "stopped" /\ inCtx[i] = "closed"
                              /\ outCtx[i] = "closed" /\ proc[i] = "disconnected"

NoOverlapNoPast ==
    lastUnit.n > 0 =>
        lastUnit.start >= lastUnit.prevEnd /\ lastUnit.start >= lastUnit.at

\* C7: a message with the interruption marker leaves every scheduled source stopped,
\* the set empty and the cursor zero; the first audio unit received after it is started
\* at the clock value read when it was received.
InterruptionResets ==
    [][/\ (op'.h \in {"onmessage", "onmessageResume"} /\ op'.m.interrupted)
            => /\ sourcesRef' = {}
               /\ nextStartTimeRef' = 0
               /\ {u.n : u \in sourcesRef} \subseteq stopped'
       /\ (lastUnit'.n # lastUnit.n /\ lastUnit'.first)
            => lastUnit'.start = lastUnit'.recv]_vars

\* ------------------------------------------------------------- transcript (SpecTurn)
Last(q) == q[Len(q)]

\* C8: a turn-complete message that carries no fragment itself, received when the
\* accumulated input text has content and the accumulated output text is empty, hands
\* onHistoryUpdate exactly one array, whose last turn is {user: the accumulated input,
\* model: ""}, and empties both accumulators.
TurnCompleteAppendsUserTurn ==
    [][(/\ op'.h = "onmessage" /\ op'.m.turnComplete
        /\ op'.m.inT = Absent /\ op'.m.outT = Absent
        /\ Trim(currentInputTranscription) # <<>>
        /\ currentOutputTranscription = <<>>)
          => /\ Len(handed') = Len(handed) + 1
             /\ Last(Last(handed').arr) = [user |-> currentInputTranscription, model |-> <<>>]
             /\ currentInputTranscription' = <<>>
             /\ currentOutputTranscription' = <<>>]_vars

\* C9: a turn-complete message received when the accumulated input and output texts,
\* its own fragments included, are empty or blank does not call onHistoryUpdate.
EmptyTurnAppendsNothing ==
    [][(/\ op'.h = "onmessage" /\ op'.m.turnComplete
        /\ Trim(currentInputTranscription \o Text(op'.m.inT)) = <<>>
        /\ Trim(currentOutputTranscription \o Text(op'.m.outT)) = <<>>)
          => handed' = handed]_vars

\* C10: within one session every array handed to onHistoryUpdate, and so the stored
\* transcript, is the array handed before it followed by the turn just finalized.
HistoryOnlyGrows ==
    /\ \A k \in 2..Len(handed) :
          handed[k].s = handed[k - 1].s =>
              handed[k].arr = Append(handed[k - 1].arr, Last(handed[k].arr))
    /\ handed # <<>> => store = Last(handed).arr

\* ------------------------------------------------------------- errors (Spec)
\* C11: after onerror has run in a mounted component, whatever state it arrived in,
\* nothing is held, the connection state is error and the error message is the
\* connection-error message.
TransportErrorEndsInError ==
    [][(op'.h = "onerror" /\ mounted)
          => /\ connectionState' = "error"
             /\ error' = ConnectionMessage
             /\ HoldsNothing']_vars

\* C12: after onclose has run for a session that was open, in the connected state of a
\* mounted component, nothing is held, the error message is the one there was before,
\* and the connection state is closed.
RemoteCloseEndsInClosed ==
    [][(op'.h = "onclose" /\ mounted /\ connectionState = "connected"
                          /\ phase[op'.s] = "open")
          => /\ connectionState' = "closed"
             /\ error' = error
             /\ HoldsNothing']_vars

\* ------------------------------------------------------------- failing starts (SpecStart)
\* C13: when getUserMedia is rejected because the microphone was denied, in a mounted
\* component, the connection state becomes error, the status Idle and the message the
\* microphone message; no ref, no object and no session is touched, and the attempt
\* stays denied. No other step sets the microphone message, and only startConversation
\* enters connecting.
MicDenialEndsInError ==
    [][/\ (op'.h = "micDenied" /\ mounted /\ phase'[op'.s] = "denied")
            => /\ connectionState' = "error"
               /\ voiceStatus' = "Idle"
               /\ error' = MicrophoneMessage
               /\ UNCHANGED <<refVars, resVars, closeReq, capVars>>
       /\ \A i \in Attempts : phase[i] = "denied" => phase'[i] = "denied"
       /\ (error' = MicrophoneMessage /\ error # MicrophoneMessage)
            => (op'.h = "micDenied" /\ phase'[op'.s] = "denied")
       /\ (connectionState' = "connecting" /\ connectionState # "connecting")
            => op'.h = "start"]_vars
\* the microphone was denied to the second attempt, after a first session had opened
MicDeniedOnRestart ==
    /\ op.h = "micDenied" /\ op.s = 2 /\ phase[2] = "denied" /\ mounted
    /\ Opened(1)
    /\ connectionState = "error" /\ error = MicrophoneMessage

\* the attempt is over: its start failed, its session got an error or close event, or
\* stopConversation asked for the session to be closed
Over(i) == phase[i] \in {"failed", "denied", "errored", "closed"} \/ closeReq[i]
\* the microphone stream, a connected node or an open audio context of attempt i
Holds(i) ==
    \/ stream[i] = "live"
    \/ proc[i] = "connected"
    \/ srcNode[i] = "connected"
    \/ inCtx[i] = "running"
    \/ outCtx[i] = "running"

\* C14: whenever the connection state is idle, closed or error, no attempt that is over
\* still has a live microphone stream, a connected node or an open audio context.
NothingHeldAfterAttempt ==
    connectionState \in {"idle", "closed", "error"} =>
        \A i \in Attempts : Over(i) => ~Holds(i)

\* ------------------------------------------------------------- stop and playback (SpecPlay)
\* C15: when stopConversation returns, the set of scheduled sources is empty, and the
\* microphone stream, the nodes and both audio contexts are released.
StopHaltsPlayback ==
    [][op'.h \in StopOps => (sourcesRef' = {} /\ HoldsNothing')]_vars

\* ------------------------------------------------------------- capture (SpecCapture)
\* the chunks onaudioprocess of attempt i received, in capture order
Chunks(i) ==
    SelectSeq([n \in 1..Len(captured) |-> n], LAMBDA n : captured[n].s = i)
\* the sendRealtimeInput calls made on the session of attempt i, in call order
SendsTo(i) == SelectSeq(sends, LAMBDA x : x.s = i)
SentTo(i) == [k \in 1..Len(SendsTo(i)) |-> SendsTo(i)[k].c]
\* the chunks whose send waits on the session promise of attempt i
Waiting(i) == SelectSeq(thens[i], LAMBDA cb : cb # Close)

\* C16: the chunks handed to sendRealtimeInput for a session, followed by the chunks
\* that wait on its promise, are the chunks captured for it, each once and in capture
\* order; none is sent before the promise has resolved and none waits once it has.
ChunksSentInCaptureOrder ==
    \A i \in Attempts :
        /\ SentTo(i) \o Waiting(i) = Chunks(i)
        /\ resolved[i] => Waiting(i) = <<>>
        /\ ~resolved[i] => SentTo(i) = <<>>
\* three chunks were captured before the session promise resolved, and its resolution
\* has just sent all three to the open session
ThreeChunksSentOnResolve ==
    /\ op.h = "resolved"
    /\ SentTo(op.s) = <<1, 2, 3>>
    /\ \A k \in 1..3 : SendsTo(op.s)[k].open

\* ------------------------------------------------------------- disposal (SpecStart)
\* no callback of a start is pending: every getUserMedia has settled, every session
\* has opened or failed, and every promise of an opened session has resolved
Settled ==
    \A i \in Attempts :
        /\ phase[i] \notin {"awaitMic", "connecting"}
        /\ Opened(i) => resolved[i]

\* C17: once the component is disposed and no callback of a start is pending, no
\* attempt whose start did not throw has a live microphone stream, a connected node or
\* an open audio context, and no session is left open without close() having been
\* asked for.
DisposalLeavesNothingHeld ==
    (~mounted /\ Settled) =>
        \A i \in Attempts :
            phase[i] # "failed" => (~Holds(i) /\ (phase[i] = "open" => closeReq[i]))

\* ------------------------------------------------------------- open acknowledgment (SpecCapture)
\* C18: the connection state becomes connected only in onopen and only from
\* connecting, never for a session stopConversation has asked to close; and every
\* chunk captured belongs to a session whose onopen has run.
ConnectedOnlyOnOpenFromConnecting ==
    [][/\ (connectionState' = "connected" /\ connectionState # "connected")
            => /\ op'.h = "onopen"
               /\ connectionState = "connecting"
               /\ ~closeReq[op'.s]
       /\ \A n \in 1..Len(captured') : inCtx'[captured'[n].s] # "none"]_vars

\* ------------------------------------------------------------- hung connection (Spec)
\* C19: a click on the button while the connection state is connecting stops the
\* conversation: the connection state it leaves is idle.
StopAvailableWhileConnecting ==
    [][(op'.h \in {"start", "startReturn", "stop"} /\ connectionState = "connecting")
          => connectionState' = "idle"]_vars

\* ------------------------------------------------------------- late chunks (SpecLate)
\* C20: a chunk captured after its session had ended is never handed to an open
\* socket; no chunk is handed to sendRealtimeInput twice; and no chunk is kept once it
\* was handed over, whether or not the socket was open.
LateChunksAreDiscarded ==
    /\ \A k \in 1..Len(sends) : captured[sends[k].c].late => ~sends[k].open
    /\ \A j, k \in 1..Len(sends) : sends[j].c = sends[k].c => j = k
    /\ \A i \in Attempts : resolved[i] => Waiting(i) = <<>>
\* a chunk was captured after its session had ended, and was sent to the closed socket
LateChunkDropped ==
    \E k \in 1..Len(sends) :
        /\ captured[sends[k].c].late
        /\ ~sends[k].open
        /\ Waiting(sends[k].s) = <<>>

ScheduledSetIsExact ==
    {u.n : u \in sourcesRef} = (1..nUnits) \ (finished \cup stopped)
\* one unit has played to its end and a later one was stopped by an interruption
OneEndedOneStopped ==
    /\ finished # {}
    /\ stopped \ finished # {}
    /\ sourcesRef = {}

\* ------------------------------------------------------------- playback over two sessions (SpecReplay)
\* C23: with no interruption, and no unit started for a session that had been stopped
\* already, the first unit a session starts is started at the clock value read when its
\* message was received.
FirstUnitStartsAtClock ==
    (lastUnit.n > 0 /\ lastUnit.fresh /\ ~lastUnit.intr /\ ~lastUnit.late) =>
        lastUnit.start = lastUnit.recv

\* ------------------------------------------------------------- late callbacks (Spec)
\* C24: an onerror, onclose or onmessage of a session that stopConversation has asked
\* to close, running after a later attempt was started, leaves the connection state and
\* the status as they were, asks no later session to close and releases no stream, node
\* or audio context of a later attempt.
LateCallbacksLeaveNewSessionAlone ==
    [][(/\ op'.h \in {"onerror", "onclose", "onmessage", "onmessageAwait", "onmessageResume"}
        /\ closeReq[op'.s]
        /\ attempts > op'.s
        /\ mounted)
          => /\ UNCHANGED <<connectionState, voiceStatus>>
             /\ \A b \in Attempts :
                    b > op'.s => /\ closeReq'[b] = closeReq[b]
                                 /\ stream'[b] = stream[b]
                                 /\ proc'[b] = proc[b]
                                 /\ srcNode'[b] = srcNode[b]
                                 /\ inCtx'[b] = inCtx[b]
                                 /\ outCtx'[b] = outCtx[b]]_vars

\* ------------------------------------------------------------- interruption and decoding (SpecPlay)
\* C25: from an interruption until the next audio message is received, the scheduled
\* set is empty: no unit of a message received before the interruption is started
\* after it.
InterruptionDropsPendingUnits ==
    sched.afterIntr => sourcesRef = {}

\* ------------------------------------------------------------- status (Spec)
\* C26: in a mounted component the status is Idle whenever the connection state is
\* idle, error or closed, it is Connecting... exactly when the state is connecting, and
\* it is Listening or Speaking whenever the state is connected.
StatusFollowsConnectionState ==
    mounted =>
        /\ connectionState \in {"idle", "error", "closed"} => voiceStatus = "Idle"
        /\ voiceStatus = "Connecting..." <=> connectionState = "connecting"
        /\ connectionState = "connected" => voiceStatus \in {"Listening", "Speaking"}

\* ------------------------------------------------------------- closing fragment (SpecText)
\* t is the end of s
EndsWith(s, t) ==
    Len(t) <= Len(s) /\ SubSeq(s, Len(s) - Len(t) + 1, Len(s)) = t
\* C27: a message with the turn-complete marker leaves both in-progress texts empty; the
\* turn it finalizes ends, on each side, with the fragment the message carries for that
\* side; and a turn is finalized whenever one of its fragments is not blank.
ClosingFragmentJoinsItsTurn ==
    [][(op'.h = "onmessage" /\ op'.m.turnComplete)
          => /\ currentInputTranscription' = <<>>
             /\ currentOutputTranscription' = <<>>
             /\ handed' # handed
                  => /\ Len(handed') = Len(handed) + 1
                     /\ EndsWith(Last(Last(handed').arr).user, Text(op'.m.inT))
                     /\ EndsWith(Last(Last(handed').arr).model, Text(op'.m.outT))
             /\ (Trim(Text(op'.m.inT)) # <<>> \/ Trim(Text(op'.m.outT)) # <<>>)
                  => handed' # handed]_vars
\* a message with both fragments and the marker has arrived after an earlier fragment:
\* its turn holds the two fragments, and nothing is left in progress
ClosingFragmentFinalized ==
    /\ op.h = "onmessage"
    /\ connectionState = "connected"
    /\ op.m.turnComplete
    /\ op.m.inT = <<"a">>
    /\ op.m.outT = <<"b">>
    /\ nMsgs >= 2
    /\ handed # <<>>
    /\ EndsWith(Last(Last(handed).arr).user, <<"a">>)
    /\ EndsWith(Last(Last(handed).arr).model, <<"b">>)
    /\ currentInputTranscription = <<>>
    /\ currentOutputTranscription = <<>>

\* ============================================================= App (types.ts)
\* the variables of the voice assistant, which the other components leave alone
voiceVars == <<compVars, refVars, resVars, sessVars, playVars, appVars, capVars, nMsgs,
               threw, op>>
\* the documents a run may create in each collection
MaxChats == 2
MaxVoiceChats == 2

\* types.ts lines 327-361: the effect that subscribes to the two collections. It runs
\* again when user or activeChatId has changed: the old listeners are removed and the
\* new ones, whose callback holds the new activeChatId, are each called first with the
\* current content of their collection.
Resubscribed(d, old, new) ==
    IF new.user # Null /\ (new.user # old.user \/ new.activeChatId # old.activeChatId)
    THEN [d EXCEPT !.listener = new.activeChatId, !.due = TRUE, !.voiceDue = TRUE]
    ELSE d

\* lines 313-319: addDoc puts the new chat first in the collection (it is the last
\* updated), which the listener is told of, and resolves later
AddChat(d) ==
    [d EXCEPT !.chats = <<Len(d.chats) + 1>> \o d.chats,
              !.due = TRUE,
              !.adding = Append(d.adding, [kind |-> "chat", id |-> Len(d.chats) + 1])]
\* lines 455-461: the same for a voice session
AddVoiceChat(d) ==
    [d EXCEPT !.voiceChats = <<Len(d.voiceChats) + 1>> \o d.voiceChats,
              !.voiceDue = TRUE,
              !.adding = Append(d.adding, [kind |-> "voice", id |-> Len(d.voiceChats) + 1])]

\* lines 293-299: onAuthStateChanged reports the signed-in user
AuthStateChanged ==
    /\ app.user = Null
    /\ LET a == [app EXCEPT !.user = 1]
       IN  /\ app' = a
           /\ db' = Resubscribed(db, app, a)
    /\ uiOp' = [h |-> "auth"]
    /\ UNCHANGED <<voiceVars, chat, inFlight, search, localStorage, dateNow>>

\* lines 311-319: handleNewChat up to its await
handleNewChat ==
    /\ app.user # Null
    /\ Len(db.chats) < MaxChats
    /\ db' = AddChat(db)
    /\ uiOp' = [h |-> "newChat"]
    /\ UNCHANGED <<voiceVars, app, chat, inFlight, search, localStorage, dateNow>>

\* lines 453-461: handleNewVoiceChat up to its await
handleNewVoiceChat ==
    /\ app.user # Null
    /\ Len(db.voiceChats) < MaxVoiceChats
    /\ db' = AddVoiceChat(db)
    /\ uiOp' = [h |-> "newVoiceChat"]
    /\ UNCHANGED <<voiceVars, app, chat, inFlight, search, localStorage, dateNow>>

\* lines 320-323 and 462-465: addDoc has resolved, after the listener was told of the
\* document; the rest of handleNewChat or handleNewVoiceChat runs
AddDocResolved ==
    /\ db.adding # <<>>
    /\ LET r == Head(db.adding)
           a == IF r.kind = "chat"
                THEN [app EXCEPT !.activeChatId = r.id, !.activeVoiceChatId = Null,
                                 !.activeTab = "chat"]
                ELSE [app EXCEPT !.activeVoiceChatId = r.id, !.activeChatId = Null,
                                 !.activeTab = "voice"]
       IN  /\ IF r.kind = "chat" THEN ~db.due ELSE ~db.voiceDue
           /\ app' = a
           /\ db' = Resubscribed([db EXCEPT !.adding = Tail(db.adding)], app, a)
           /\ uiOp' = [h |-> IF r.kind = "chat" THEN "chatAdded" ELSE "voiceChatAdded"]
    /\ UNCHANGED <<voiceVars, chat, inFlight, search, localStorage, dateNow>>

\* lines 331-343: the listener of the text chats is called; its activeChatId is the one
\* of the render that subscribed it
ChatsSnapshot ==
    /\ db.listener # NoListener
    /\ db.due
    /\ LET chatsData == db.chats
           first == db.listener = Null /\ Len(chatsData) > 0
           a == IF first
                THEN [app EXCEPT !.chats = chatsData, !.activeChatId = chatsData[1]]
                ELSE [app EXCEPT !.chats = chatsData]
           d == [db EXCEPT !.due = FALSE]
       IN  /\ app' = a
           /\ db' = Resubscribed(IF ~first /\ Len(chatsData) = 0 THEN AddChat(d) ELSE d,
                                 app, a)
    /\ uiOp' = [h |-> "chatsSnapshot"]
    /\ UNCHANGED <<voiceVars, chat, inFlight, search, localStorage, dateNow>>

\* lines 346-354: the listener of the voice sessions is called
VoiceChatsSnapshot ==
    /\ db.listener # NoListener
    /\ db.voiceDue
    /\ app' = [app EXCEPT !.voiceChats = db.voiceChats]
    /\ db' = [db EXCEPT !.voiceDue = FALSE]
    /\ uiOp' = [h |-> "voiceChatsSnapshot"]
    /\ UNCHANGED <<voiceVars, chat, inFlight, search, localStorage, dateNow>>

\* lines 490-495: a chat of the sidebar is selected
handleSelectChat(chatId) ==
    /\ app.user # Null
    /\ \E k \in 1..Len(app.chats) : app.chats[k] = chatId
    /\ LET a == [app EXCEPT !.activeChatId = chatId, !.activeVoiceChatId = Null,
                            !.activeTab = "chat"]
       IN  /\ app' = a
           /\ db' = Resubscribed(db, app, a)
    /\ uiOp' = [h |-> "selectChat"]
    /\ UNCHANGED <<voiceVars, chat, inFlight, search, localStorage, dateNow>>

\* lines 497-502: a voice session of the sidebar is selected
handleSelectVoiceChat(chatId) ==
    /\ app.user # Null
    /\ \E k \in 1..Len(app.voiceChats) : app.voiceChats[k] = chatId
    /\ LET a == [app EXCEPT !.activeVoiceChatId = chatId, !.activeChatId = Null,
                            !.activeTab = "voice"]
       IN  /\ app' = a
           /\ db' = Resubscribed(db, app, a)
    /\ uiOp' = [h |-> "selectVoiceChat"]
    /\ UNCHANGED <<voiceVars, chat, inFlight, search, localStorage, dateNow>>

NextApp ==
    \/ AuthStateChanged
    \/ handleNewChat
    \/ handleNewVoiceChat
    \/ AddDocResolved
    \/ ChatsSnapshot
    \/ VoiceChatsSnapshot
    \/ \E chatId \in 1..MaxChats : handleSelectChat(chatId)
    \/ \E chatId \in 1..MaxVoiceChats : handleSelectVoiceChat(chatId)

SpecApp == Init /\ [][NextApp]_vars

\* ------------------------------------------------------------- active ids (SpecApp)
\* C28: in every state of App at most one of activeChatId and activeVoiceChatId is not
\* null.
AtMostOneActiveConversation ==
    app.activeChatId = Null \/ app.activeVoiceChatId = Null

\* ============================================================= ChatComponent (part_001)
\* the mounts of the ChatComponent in a run
MaxMounts == 2
\* what the user may have in the input field
Inputs == {<<>>, <<Blank>>, <<"a">>}
SendFailedMessage == "Sorry, something went wrong."

\* types.ts lines 504-517 and 548-550: the ChatComponent is rendered for a signed-in user
\* while the chat tab is the active one
ChatShown == app.user # Null /\ app.activeTab = "chat"

\* types.ts lines 363-383: the listener of the active chat's document is called and
\* makes the chat session of its messages
ChatDocSnapshot ==
    /\ app.user # Null
    /\ app.activeChatId # Null
    /\ app.chatSession = Null
    /\ app' = [app EXCEPT !.chatSession = 1]
    /\ uiOp' = [h |-> "chatDocSnapshot"]
    /\ UNCHANGED <<voiceVars, db, chat, inFlight, search, localStorage, dateNow>>

\* part_002 lines 25-34: the effect of the mount loads the stored history, if there is one
MountedSearch ==
    IF localStorage.has THEN [NewSearch EXCEPT !.history = localStorage.items] ELSE NewSearch

\* types.ts lines 581 and 629: a tab is chosen; the component of the tab that is left
\* is unmounted, and the one of the chosen tab is mounted with its initial state
setActiveTab(tab) ==
    /\ app.user # Null
    /\ tab # app.activeTab
    /\ app' = [app EXCEPT !.activeTab = tab]
    /\ IF tab = "chat"
       THEN /\ chat.inst < MaxMounts
            /\ chat' = NewChatComponent(chat.inst + 1)
       ELSE chat' = chat
    /\ search' = IF tab = "search" THEN MountedSearch ELSE search
    /\ uiOp' = [h |-> "setActiveTab"]
    /\ UNCHANGED <<voiceVars, db, inFlight, localStorage, dateNow>>

\* part_001 line 372 (typing) and lines 203-212 (speech recognition): setInput
setInput(text) ==
    /\ ChatShown
    /\ chat' = [chat EXCEPT !.input = text]
    /\ uiOp' = [h |-> "setInput"]
    /\ UNCHANGED <<voiceVars, app, db, inFlight, search, localStorage, dateNow>>

\* part_001 lines 243-253: an image file is chosen; the FileReader starts to read it
handleFileChange ==
    /\ ChatShown
    /\ chat' = [chat EXCEPT !.imageFile = 1, !.reading = TRUE]
    /\ uiOp' = [h |-> "fileChange"]
    /\ UNCHANGED <<voiceVars, app, db, inFlight, search, localStorage, dateNow>>

\* part_001 lines 248-250: onloadend of the FileReader
ReaderLoadEnd ==
    /\ ChatShown
    /\ chat.reading
    /\ chat' = [chat EXCEPT !.imagePreview = 1, !.reading = FALSE]
    /\ uiOp' = [h |-> "loadend"]
    /\ UNCHANGED <<voiceVars, app, db, inFlight, search, localStorage, dateNow>>

\* part_001 lines 256-259: removeImage
RemoveImage(c) == [c EXCEPT !.imageFile = Null, !.imagePreview = Null]

removeImage ==
    /\ ChatShown
    /\ chat.imagePreview # Null
    /\ chat' = RemoveImage(chat)
    /\ uiOp' = [h |-> "removeImage"]
    /\ UNCHANGED <<voiceVars, app, db, inFlight, search, localStorage, dateNow>>

\* part_001 line 265: the condition under which handleSendMessage returns at once
SendRefused(c, chatSession) ==
    c.loading \/ chatSession = Null \/ (Trim(c.input) = <<>> /\ c.imageFile = Null)
\* part_001 lines 267-278: the parts of the user message
UserParts(c) ==
    (IF c.imageFile # Null /\ c.imagePreview # Null THEN {"inlineData"} ELSE {})
        \cup (IF Trim(c.input) # <<>> THEN {"text"} ELSE {})

\* part_001 lines 263-291: the form is submitted; handleSendMessage up to its await
handleSendMessage ==
    /\ ChatShown
    /\ IF SendRefused(chat, app.chatSession)
       THEN /\ uiOp' = [h |-> "send", started |-> FALSE]
            /\ UNCHANGED <<chat, inFlight>>
       ELSE /\ chat' = [RemoveImage(chat) EXCEPT !.input = <<>>, !.loading = TRUE,
                                                 !.error = "null"]
            /\ inFlight' = inFlight \cup {[inst |-> chat.inst, parts |-> UserParts(chat)]}
            /\ uiOp' = [h |-> "send", started |-> TRUE]
    /\ UNCHANGED <<voiceVars, app, db, search, localStorage, dateNow>>

\* part_001 lines 291-316: the stream of a send has ended (ok) or the send has failed;
\* the setters of a component that was unmounted meanwhile do nothing
SendEnded(s, ok) ==
    /\ s \in inFlight
    /\ inFlight' = inFlight \ {s}
    /\ chat' = IF ChatShown /\ s.inst = chat.inst
               THEN [chat EXCEPT !.loading = FALSE,
                                 !.error = IF ok THEN chat.error ELSE SendFailedMessage]
               ELSE chat
    /\ uiOp' = [h |-> IF ok THEN "sendDone" ELSE "sendFailed"]
    /\ UNCHANGED <<voiceVars, app, db, search, localStorage, dateNow>>

NextChat ==
    \/ AuthStateChanged
    \/ ChatsSnapshot
    \/ AddDocResolved
    \/ ChatDocSnapshot
    \/ \E tab \in {"chat", "image"} : setActiveTab(tab)
    \/ \E text \in Inputs : setInput(text)
    \/ handleFileChange
    \/ ReaderLoadEnd
    \/ removeImage
    \/ handleSendMessage
    \/ \E s \in inFlight, ok \in BOOLEAN : SendEnded(s, ok)

SpecChat == Init /\ [][NextChat]_vars

\* ------------------------------------------------------------- chat sends (SpecChat)
\* C29: a send starts only when no other send is in flight and its message has a part,
\* and the component is loading only while a send of its own is in flight.
SendsStartAloneWithContent ==
    /\ Cardinality(inFlight) <= 1
    /\ \A s \in inFlight : s.parts # {}
    /\ (ChatShown /\ chat.loading) => \E s \in inFlight : s.inst = chat.inst

\* ============================================================= Search (part_002)
\* the values Date.now() takes in a run
MaxNow == 1
\* the failures of localStorage.setItem in a run
MaxSaveFailures == 1
\* part_002 line 43: slice(0, 20)
HistoryLimit == 20

\* types.ts lines 504-523 and 548-550: Search is rendered for a signed-in user while the
\* search tab is the active one
SearchShown == app.user # Null /\ app.activeTab = "search"

\* part_002 lines 37-41: the item of a query; its id is the decimal string of the
\* timestamp, which stands for it here
NewItem(newQuery, t) == [id |-> t, query |-> newQuery, timestamp |-> t]
\* a list that is never cut
KeepAll(list, n) == list
\* part_002 line 43: slice(0, n)
Slice(list, n) == SubSeq(list, 1, IF Len(list) < n THEN Len(list) ELSE n)
\* part_002 line 43: the updated history
UpdatedHistory(prev, newItem) == Slice(<<newItem>> \o prev, HistoryLimit)

\* the clock advances
DateTick ==
    /\ dateNow < MaxNow
    /\ dateNow' = dateNow + 1
    /\ uiOp' = [h |-> "tick"]
    /\ UNCHANGED <<voiceVars, app, db, chat, inFlight, search, localStorage>>

\* part_002 line 138: the query field is edited
setQuery(text) ==
    /\ SearchShown
    /\ search' = [search EXCEPT !.query = text]
    /\ uiOp' = [h |-> "setQuery"]
    /\ UNCHANGED <<voiceVars, app, db, chat, inFlight, localStorage, dateNow>>

\* part_002 lines 53-56: an entry of the history is clicked
handleHistoryClick(pastQuery) ==
    /\ SearchShown
    /\ pastQuery \in {search.history[k].query : k \in 1..Len(search.history)}
    /\ search' = [search EXCEPT !.query = pastQuery]
    /\ uiOp' = [h |-> "historyClick"]
    /\ UNCHANGED <<voiceVars, app, db, chat, inFlight, localStorage, dateNow>>

\* part_002 lines 75-83 and 36-51: the form is submitted; handleSearch up to its await,
\* with addToHistory. saved: localStorage.setItem did not throw.
handleSearch(saved) ==
    /\ SearchShown
    /\ IF Trim(search.query) = <<>> \/ search.loading
       THEN /\ saved
            /\ uiOp' = [h |-> "search", started |-> FALSE, dropped |-> FALSE]
            /\ UNCHANGED <<search, localStorage>>
       ELSE LET updatedHistory ==
                    UpdatedHistory(search.history, NewItem(search.query, dateNow))
            IN  /\ saved \/ localStorage.failures < MaxSaveFailures
                /\ search' = [search EXCEPT !.history = updatedHistory,
                                            !.loading = TRUE, !.pending = TRUE]
                /\ localStorage' =
                      IF saved
                      THEN [localStorage EXCEPT !.has = TRUE, !.items = updatedHistory]
                      ELSE [localStorage EXCEPT !.failures = localStorage.failures + 1]
                /\ uiOp' = [h |-> "search", started |-> TRUE,
                            dropped |-> Len(search.history) = HistoryLimit]
    /\ UNCHANGED <<voiceVars, app, db, chat, inFlight, dateNow>>

\* part_002 lines 106-125: the request of the mounted component has ended
SearchEnded ==
    /\ SearchShown
    /\ search.pending
    /\ search' = [search EXCEPT !.loading = FALSE, !.pending = FALSE]
    /\ uiOp' = [h |-> "searchEnded"]
    /\ UNCHANGED <<voiceVars, app, db, chat, inFlight, localStorage, dateNow>>

NextSearch ==
    \/ AuthStateChanged
    \/ \E tab \in {"image", "search"} : setActiveTab(tab)
    \/ DateTick
    \/ \E text \in Inputs : setQuery(text)
    \/ \E pastQuery \in Inputs : handleHistoryClick(pastQuery)
    \/ \E saved \in BOOLEAN : handleSearch(saved)
    \/ SearchEnded

SpecSearch == Init /\ [][NextSearch]_vars

\* ------------------------------------------------------------- search history (SpecSearch)
\* C30: the search history never holds more than 20 entries and no entry is newer than
\* one before it; a search that is started leaves the history equal to the first 20
\* entries of the item of its query followed by the previous history.
HistoryIsNewestFirstAndCapped ==
    /\ [](/\ Len(search.history) <= 20
          /\ \A k \in 1..(Len(search.history) - 1) :
                search.history[k].timestamp >= search.history[k + 1].timestamp)
    /\ [][(uiOp'.h = "search" /\ uiOp'.started)
            => LET full == <<[id |-> dateNow, query |-> search.query,
                              timestamp |-> dateNow]>> \o search.history
               IN  /\ Len(search'.history) = IF Len(full) < 20 THEN Len(full) ELSE 20
                   /\ \A k \in 1..Len(search'.history) : search'.history[k] = full[k]]_vars
\* a search was started with 20 entries in the history: the oldest one was dropped, and
\* the list runs from the new entry to an older one
OldestEntryDropped ==
    /\ uiOp.h = "search"
    /\ uiOp.started
    /\ uiOp.dropped
    /\ Len(search.history) = 20
    /\ search.history[1].timestamp > search.history[20].timestamp
====
